---- MODULE Spec2Model ----
(***************************************************************************)
(* Rental lifecycle of the Landlord (T-ODRE) application: the request      *)
(* handlers that read and replace the JSON collections properties.json,    *)
(* rentals.json, rental_terminations.json, rental_renewals.json and        *)
(* payments.json.                                                          *)
(*                                                                         *)
(* Dates.  An ISO date string "YYYY-MM-DD" is modelled by its day number   *)
(* (day 0 = 2024-01-01).  A JavaScript Date (an instant) is modelled by    *)
(* 2 * day + f, f = 0 for midnight exactly and f = 1 for any later time of *)
(* that day, so `new Date(iso)` is 2 * day and `toISOString().split("T")`  *)
(* is instant \div 2.  The server clock is taken to be UTC.  Request       *)
(* bodies carry well-formed dates and numbers.                             *)
(***************************************************************************)
EXTENDS Integers, Sequences, FiniteSets, TLC

VARIABLES db,    \* the data directory: one sequence of records per JSON file
          now,   \* the instant returned by new Date() / Date.now()
          resp,  \* the request being answered and its response; Idle between requests
          calls  \* the requests served concurrently (SpecConcurrent): what each
                 \* has read so far and has still to write

vars == <<db, now, resp, calls>>

(***************************************************************************)
(* Bounds of the model                                                     *)
(***************************************************************************)
MaxRentals == 2
MaxTerminations == 1
MaxRenewals == 1
\* the same for the one-tenant, one-landlord specification SpecLifecycle
MaxLifecycleTerminations == 2
MaxLifecycleRenewals == 2
\* payments stored, in the specification SpecPayments
MaxPayments == 2
\* rentals stored, in the specification SpecCap
MaxCapRentals == 22
\* rentals stored, in the specification SpecConcurrent
MaxConcurrentRentals == 3

Tenants == {"t1", "t2"}
Landlords == {"l1", "l2"}
Users == Tenants \cup Landlords
\* the user with role ministry
Ministry == {"m1"}

\* optional field that is not set (undefined)
Absent == -1
\* a landlordId that is missing or empty
NoUser == ""

(***************************************************************************)
(* Calendar: JavaScript Date arithmetic on (year, month index, day)        *)
(***************************************************************************)
Years == 2024..2036

IsLeap(y) == (y % 4 = 0 /\ y % 100 # 0) \/ y % 400 = 0

CumDays == <<0, 31, 59, 90, 120, 151, 181, 212, 243, 273, 304, 334, 365>>

\* days of year y before month index m (0 = January; 12 = the whole year)
DaysBeforeMonth(y, m) == CumDays[m + 1] + (IF IsLeap(y) /\ m >= 2 THEN 1 ELSE 0)

LeapsBefore(y) == ((y - 1) \div 4) - ((y - 1) \div 100) + ((y - 1) \div 400)

DaysBeforeYear(y) == 365 * (y - 2024) + LeapsBefore(y) - LeapsBefore(2024)

\* Date normalisation: a month index past 11 carries into the year and a day
\* past the end of the month carries into the following month.
MakeDay(y, m, d) ==
  LET yy == y + (m \div 12)
      mm == m % 12
  IN  DaysBeforeYear(yy) + DaysBeforeMonth(yy, mm) + d - 1

Days == 0..(DaysBeforeYear(2036) - 1)

YearTable ==
  [n \in Days |-> CHOOSE y \in Years :
                    DaysBeforeYear(y) <= n /\ n < DaysBeforeYear(y + 1)]

MonthTable ==
  [n \in Days |-> LET y == YearTable[n]
                      k == n - DaysBeforeYear(y)
                  IN  CHOOSE m \in 0..11 :
                        DaysBeforeMonth(y, m) <= k /\ k < DaysBeforeMonth(y, m + 1)]

getFullYear(n) == YearTable[n]
getMonth(n) == MonthTable[n]
getDate(n) == n - DaysBeforeYear(YearTable[n]) - DaysBeforeMonth(YearTable[n], MonthTable[n]) + 1

\* d.setMonth(d.getMonth() + k)
AddMonths(n, k) == MakeDay(getFullYear(n), getMonth(n) + k, getDate(n))
\* d.setFullYear(d.getFullYear() + k)
AddYears(n, k) == MakeDay(getFullYear(n) + k, getMonth(n), getDate(n))
\* (end.getFullYear() - start.getFullYear()) * 12 + (end.getMonth() - start.getMonth())
MonthsDiff(s, e) == (getFullYear(e) - getFullYear(s)) * 12 + (getMonth(e) - getMonth(s))

\* new Date("YYYY-MM-DD"): midnight of that day
ParseDate(d) == 2 * d
\* date.toISOString().split("T")[0]
ToISODate(t) == t \div 2
\* the instant k months after t, same time of day
InstantAddMonths(t, k) == 2 * AddMonths(t \div 2, k) + (t % 2)

\* the instants the clock takes in the model, in increasing order:
\* 2024-12-31 during the day and 2025-03-05 at midnight exactly
Clock == <<2 * MakeDay(2024, 11, 31) + 1, 2 * MakeDay(2025, 2, 5)>>

(***************************************************************************)
(* Record store (utils/jsonDb)                                             *)
(***************************************************************************)
Files == {"properties", "rentals", "terminations", "renewals", "payments"}

Ids(seq) == {seq[i].id : i \in DOMAIN seq}

\* findById: the first record with that id
findById(seq, id) == seq[CHOOSE i \in DOMAIN seq : seq[i].id = id /\ \A j \in 1..(i - 1) : seq[j].id # id]

\* updateById: every record with that id gets the updates merged in
updateById(seq, id, updates) ==
  [i \in DOMAIN seq |->
     IF seq[i].id = id
     THEN [f \in DOMAIN seq[i] |-> IF f \in DOMAIN updates THEN updates[f] ELSE seq[i][f]]
     ELSE seq[i]]

\* generateId: a fresh id
generateId(seq) == Len(seq) + 1

\* a handler's outcome: the response code and the writeJSON calls it makes, in order
Write(file, data) == [file |-> file, data |-> data]
Out(code, writes) == [code |-> code, writes |-> writes]
Reject(code) == Out(code, <<>>)

\* the store after the given writeJSON calls (each replaces a whole file)
Commit(d, ws) ==
  [f \in DOMAIN d |->
     IF \E i \in DOMAIN ws : ws[i].file = f
     THEN ws[CHOOSE i \in DOMAIN ws : ws[i].file = f /\ \A j \in DOMAIN ws : ws[j].file = f => j <= i].data
     ELSE d[f]]

Idle == [op |-> "none"]

\* the handlers that run concurrently, at most two at a time
Slots == 1..2
NoCalls == [s \in Slots |-> Idle]

\* One request is served at a time; the handler runs to its response.
\* fault = 0: every writeJSON succeeds.  fault = k > 0: the k-th writeJSON
\* throws, the catch block answers 500 and the writes before it stay on disk.
Respond(op, id, out, fault) ==
  /\ resp.op = "none"
  /\ fault \in 0..Len(out.writes)
  /\ db' = Commit(db, IF fault = 0 THEN out.writes ELSE SubSeq(out.writes, 1, fault - 1))
  /\ resp' = [op |-> op, id |-> id, code |-> IF fault = 0 THEN out.code ELSE 500]
  /\ UNCHANGED <<now, calls>>

\* the response reaches the caller
Deliver ==
  /\ resp.op # "none"
  /\ resp' = Idle
  /\ UNCHANGED <<db, now, calls>>

Role(u) ==
  IF u \in Tenants THEN "tenant"
  ELSE IF u \in Landlords THEN "landlord"
  ELSE "ministry"

(***************************************************************************)
(* Availability                                                            *)
(***************************************************************************)
LiveStatuses == {"active", "renewal_pending", "terminating"}

\* the filter of list-again and of the property update: the rental occupies
\* property pid at instant t
IsBlocking(r, pid, t) ==
  /\ r.propertyId = pid
  /\ r.status \in LiveStatuses
  /\ (r.endDate # Absent => ParseDate(r.endDate) > t)

activeRentals(rentals, pid, t) ==
  {i \in DOMAIN rentals : IsBlocking(rentals[i], pid, t)}

(***************************************************************************)
(* Inputs of the requests                                                  *)
(***************************************************************************)
\* rentalDuration of a rental request (Absent: not given)
RentalDurations == {Absent, 1, 2, 25}

\* property 1 exists, property 2 does not
PropertyIds == 1..2
RentalIds == 1..MaxRentals
TerminationIds == 1..MaxTerminations
RenewalIds == 1..MaxRenewals

(***************************************************************************)
(* Offer window validation (POST /api/properties, PUT /api/properties/id)  *)
(***************************************************************************)
\* today.setHours(0, 0, 0, 0)
TodayMidnight(t) == 2 * (t \div 2)

ValidWindow(s, e, t) ==
  /\ ~(ParseDate(s) < TodayMidnight(t))
  /\ ~(ParseDate(e) <= ParseDate(s))
  /\ ~(MonthsDiff(s, e) < 2)

(***************************************************************************)
(* POST /api/rentals/request: a tenant asks to rent a property             *)
(***************************************************************************)
MaxTenantRentals == 20

\* variant: only an active rental of the tenant stands in the way
hasPendingRequest_ActiveOnly(rentals, u, pid) ==
  \E i \in DOMAIN rentals :
     /\ rentals[i].tenantId = u
     /\ rentals[i].propertyId = pid
     /\ rentals[i].status = "active"

hasPendingRequest(rentals, u, pid) ==
  \E i \in DOMAIN rentals :
     /\ rentals[i].tenantId = u
     /\ rentals[i].propertyId = pid
     /\ rentals[i].status = "pending"

\* variant: only pending requests count towards the cap
tenantRentals_PendingOnly(rentals, u) ==
  {i \in DOMAIN rentals : rentals[i].tenantId = u /\ rentals[i].status = "pending"}

tenantRentals(rentals, u) ==
  {i \in DOMAIN rentals :
     /\ rentals[i].tenantId = u
     /\ rentals[i].status \in {"active", "pending", "renewal_pending", "terminating"}}

rentalStartDate(property, t) ==
  IF property.startDate # Absent /\ ParseDate(property.startDate) >= t
  THEN property.startDate
  ELSE ToISODate(t)

defaultDuration(property) ==
  IF property.startDate # Absent /\ property.endDate # Absent
  THEN MonthsDiff(property.startDate, property.endDate)
  ELSE 12

\* the check that lets a request through: the property's available flag
requestAllowed(property, rentals, t) == property.available

\* the outcome of the handler on the collections it has read
RequestRentalOutOn(store, at, u, pid, rentalDuration) ==
  IF Role(u) # "tenant" THEN Reject(403)
  ELSE IF pid \notin Ids(store.properties) THEN Reject(404)
  ELSE
    LET property == findById(store.properties, pid)
        start == rentalStartDate(property, at)
        duration == IF rentalDuration = Absent \/ rentalDuration = 0
                    THEN defaultDuration(property) ELSE rentalDuration
        newRental == [id |-> generateId(store.rentals), tenantId |-> u,
                      landlordId |-> property.ownerId, propertyId |-> pid,
                      startDate |-> start, endDate |-> AddMonths(start, duration),
                      status |-> "pending", monthlyRent |-> property.rent]
    IN  IF ~requestAllowed(property, store.rentals, at) THEN Reject(400)
        ELSE IF hasPendingRequest(store.rentals, u, pid) THEN Reject(400)
        ELSE IF Cardinality(tenantRentals(store.rentals, u)) >= MaxTenantRentals THEN Reject(400)
        ELSE IF duration < defaultDuration(property) THEN Reject(400)
        ELSE IF duration > 24 THEN Reject(400)
        ELSE Out(200, <<Write("rentals", Append(store.rentals, newRental))>>)

RequestRentalOut(u, pid, rentalDuration) == RequestRentalOutOn(db, now, u, pid, rentalDuration)

RequestRental(u, pid, rentalDuration, fault) ==
  /\ resp.op = "none"
  /\ LET out == RequestRentalOut(u, pid, rentalDuration)
     IN  Respond("requestRental", pid, out, fault)

(***************************************************************************)
(* POST /api/rentals/approve: the landlord approves or declines            *)
(***************************************************************************)
\* variant: the landlord named on the record decides
authorised_ByLandlordId(record, property, u) == record.landlordId = u

\* who may decide on a rental, termination or renewal: the owner of the
\* rental's property, whatever landlordId the record carries
authorised(record, property, u) == property.ownerId = u

\* variant: the end date is always one year after the start
approvedEndDate_AlwaysOneYear(rental, t) ==
  AddYears(IF rental.startDate # Absent THEN rental.startDate ELSE ToISODate(t), 1)

\* the end date an approved rental gets: its own, or one year after its start
approvedEndDate(rental, t) ==
  IF rental.endDate # Absent THEN rental.endDate
  ELSE AddYears(IF rental.startDate # Absent THEN rental.startDate ELSE ToISODate(t), 1)

\* variant: the approval also copies the property's present rent
approvalUpdates_WithRent(rental, property, t) ==
  [status |-> "active", endDate |-> approvedEndDate(rental, t), monthlyRent |-> property.rent]

\* the fields an approval writes on the rental
approvalUpdates(rental, property, t) ==
  [status |-> "active", endDate |-> approvedEndDate(rental, t)]

\* variant: only a cancelled rental is refused
isPendingRental_NotCancelled(rental) == rental.status # "cancelled"

isPendingRental(rental) == rental.status = "pending"

\* the outcome of the handler on the collections it has read
ApproveRentalOutOn(store, at, u, rid, action) ==
  IF Role(u) # "landlord" THEN Reject(403)
  ELSE IF rid \notin Ids(store.rentals) THEN Reject(404)
  ELSE
    LET rental == findById(store.rentals, rid)
    IN  IF rental.propertyId \notin Ids(store.properties) THEN Reject(404)
        ELSE
          LET property == findById(store.properties, rental.propertyId)
          IN  IF ~authorised(rental, property, u) THEN Reject(403)
              ELSE IF ~isPendingRental(rental) THEN Reject(400)
              ELSE IF action = "approve"
              THEN Out(200,
                     <<Write("rentals", updateById(store.rentals, rid,
                               approvalUpdates(rental, property, at))),
                       Write("properties", updateById(store.properties, property.id,
                               [available |-> FALSE]))>>)
              ELSE Out(200,
                     <<Write("rentals", updateById(store.rentals, rid, [status |-> "cancelled"]))>>)

ApproveRentalOut(u, rid, action) == ApproveRentalOutOn(db, now, u, rid, action)

ApproveRental(u, rid, action, fault) ==
  /\ resp.op = "none"
  /\ Respond("approveRental", rid, ApproveRentalOut(u, rid, action), fault)

(***************************************************************************)
(* POST /api/rentals/terminate: the tenant asks to end the rental          *)
(***************************************************************************)
\* requested end dates: 2025-03-03, 2025-03-05 and 2025-05-05
TerminationDates == {MakeDay(2025, 2, 3), MakeDay(2025, 2, 5), MakeDay(2025, 4, 5)}

\* now.setMonth(now.getMonth() + 2)
twoMonthsFromNow(t) == InstantAddMonths(t, 2)

\* variant: a date exactly two months ahead is refused too
noticeTooShort_Inclusive(requestedEndDate, t) == ParseDate(requestedEndDate) <= twoMonthsFromNow(t)

noticeTooShort(requestedEndDate, t) == ParseDate(requestedEndDate) < twoMonthsFromNow(t)

hasPending(subRequests, rid) ==
  \E i \in DOMAIN subRequests : subRequests[i].rentalId = rid /\ subRequests[i].status = "pending"

\* the rental after a termination request: status and end date overwritten
terminatingRental(rental, requestedEndDate) ==
  [rental EXCEPT !.status = "terminating", !.endDate = requestedEndDate]

\* rentals[rentalIndex] = f(rentals[rentalIndex]) with rentalIndex = findIndex(id);
\* nothing changes when findIndex returns -1
setAtId(seq, id, rec) ==
  IF id \in Ids(seq)
  THEN LET idx == CHOOSE i \in DOMAIN seq : seq[i].id = id /\ \A j \in 1..(i - 1) : seq[j].id # id
       IN  [seq EXCEPT ![idx] = rec]
  ELSE seq

\* the outcome of the handler on the collections it has read
RequestTerminationOutOn(store, at, u, rid, requestedEndDate) ==
  IF Role(u) # "tenant" THEN Reject(403)
  ELSE IF rid \notin Ids(store.rentals) THEN Reject(404)
  ELSE
    LET rental == findById(store.rentals, rid)
        termination == [id |-> generateId(store.terminations), rentalId |-> rid, tenantId |-> u,
                        landlordId |-> rental.landlordId,
                        requestedEndDate |-> requestedEndDate, status |-> "pending"]
    IN  IF rental.tenantId # u THEN Reject(403)
        ELSE IF rental.status # "active" THEN Reject(400)
        ELSE IF hasPending(store.terminations, rid) THEN Reject(400)
        ELSE IF noticeTooShort(requestedEndDate, at) THEN Reject(400)
        ELSE Out(200,
               <<Write("terminations", Append(store.terminations, termination)),
                 Write("rentals", setAtId(store.rentals, rid, terminatingRental(rental, requestedEndDate)))>>)

RequestTerminationOut(u, rid, requestedEndDate) == RequestTerminationOutOn(db, now, u, rid, requestedEndDate)

RequestTermination(u, rid, requestedEndDate, fault) ==
  /\ resp.op = "none"
  /\ LET out == RequestTerminationOut(u, rid, requestedEndDate)
     IN  Respond("requestTermination", rid, out, fault)

(***************************************************************************)
(* POST /api/rentals/termination/approve: the landlord decides             *)
(***************************************************************************)
\* the sub-request (termination or renewal) with its landlordId set to the owner
healLandlordId(subRequest, property) ==
  IF subRequest.landlordId = NoUser \/ subRequest.landlordId # property.ownerId
  THEN [subRequest EXCEPT !.landlordId = property.ownerId]
  ELSE subRequest

\* variant: a rejection leaves the rental as it is
rentalAfterTermination_RejectKeepsStatus(rental, termination, approve) ==
  IF approve
  THEN [rental EXCEPT !.status = "completed", !.endDate = termination.requestedEndDate]
  ELSE rental

\* variant: a rejection removes the end date
rentalAfterTermination_RejectClearsEnd(rental, termination, approve) ==
  IF approve
  THEN [rental EXCEPT !.status = "completed", !.endDate = termination.requestedEndDate]
  ELSE [rental EXCEPT !.status = "active", !.endDate = Absent]

\* the rental after the landlord's decision on its termination
rentalAfterTermination(rental, termination, approve) ==
  IF approve
  THEN [rental EXCEPT !.status = "completed", !.endDate = termination.requestedEndDate]
  ELSE [rental EXCEPT !.status = "active"]

\* variant: approval marks the property available
propertiesAfterTermination_Relists(properties, property, approve) ==
  IF approve THEN updateById(properties, property.id, [available |-> TRUE]) ELSE properties

\* the properties written back after the decision: approval does not list the
\* property again
propertiesAfterTermination(properties, property, approve) == properties

ApproveTerminationOut(u, tid, approve) ==
  IF Role(u) # "landlord" THEN Reject(403)
  ELSE IF tid \notin Ids(db.terminations) THEN Reject(404)
  ELSE
    LET termination == findById(db.terminations, tid)
    IN  IF termination.rentalId \notin Ids(db.rentals) THEN Reject(404)
        ELSE
          LET rental == findById(db.rentals, termination.rentalId)
          IN  IF rental.propertyId \notin Ids(db.properties) THEN Reject(404)
              ELSE
                LET property == findById(db.properties, rental.propertyId)
                    healed == healLandlordId(termination, property)
                    decided == [healed EXCEPT !.status = IF approve THEN "approved" ELSE "rejected"]
                IN  IF ~authorised(termination, property, u) THEN Reject(403)
                    ELSE IF termination.status # "pending" THEN Reject(400)
                    ELSE Out(200,
                           <<Write("terminations", setAtId(db.terminations, tid, decided)),
                             Write("rentals", setAtId(db.rentals, rental.id,
                                     rentalAfterTermination(rental, termination, approve))),
                             Write("properties",
                                   propertiesAfterTermination(db.properties, property, approve))>>)

ApproveTermination(u, tid, approve, fault) ==
  /\ resp.op = "none"
  /\ Respond("approveTermination", tid, ApproveTerminationOut(u, tid, approve), fault)

(***************************************************************************)
(* POST /api/rentals/renew: the tenant asks for a renewal                  *)
(***************************************************************************)
\* renewalDuration of a renewal request, in months
RenewalDurations == {0, 1, 25}

\* variant: the upper bound is exclusive
validRenewalDuration_Below24(d) == ~(d < 1 \/ d >= 24)

validRenewalDuration(d) == ~(d < 1 \/ d > 24)

\* the day after the rental's end date (or after its start date when it has none)
renewalStartDate(rental) ==
  (IF rental.endDate # Absent THEN rental.endDate ELSE rental.startDate) + 1

RequestRenewalOut(u, rid, renewalDuration) ==
  IF Role(u) # "tenant" THEN Reject(403)
  ELSE IF renewalDuration = 0 THEN Reject(400)
  ELSE IF ~validRenewalDuration(renewalDuration) THEN Reject(400)
  ELSE IF rid \notin Ids(db.rentals) THEN Reject(404)
  ELSE
    LET rental == findById(db.rentals, rid)
        landlordId == IF rental.landlordId # NoUser THEN rental.landlordId
                      ELSE IF rental.propertyId \in Ids(db.properties)
                           THEN findById(db.properties, rental.propertyId).ownerId
                           ELSE NoUser
        renewal == [id |-> generateId(db.renewals), rentalId |-> rid, tenantId |-> u,
                    landlordId |-> landlordId, renewalDuration |-> renewalDuration,
                    requestedStartDate |-> renewalStartDate(rental), status |-> "pending"]
    IN  IF rental.tenantId # u THEN Reject(403)
        ELSE IF rental.status # "active" THEN Reject(400)
        ELSE IF hasPending(db.renewals, rid) THEN Reject(400)
        ELSE Out(200,
               <<Write("renewals", Append(db.renewals, renewal)),
                 Write("rentals", setAtId(db.rentals, rid, [rental EXCEPT !.status = "renewal_pending"]))>>)

RequestRenewal(u, rid, renewalDuration, fault) ==
  /\ resp.op = "none"
  /\ LET out == RequestRenewalOut(u, rid, renewalDuration)
     IN  Respond("requestRenewal", rid, out, fault)

(***************************************************************************)
(* POST /api/rentals/renewal/approve: the landlord decides                 *)
(***************************************************************************)
\* variant: a rejected renewal cancels the rental
rentalAfterRenewal_RejectCancels(rental, renewal, approve) ==
  IF approve
  THEN [rental EXCEPT !.status = "active",
                      !.startDate = renewal.requestedStartDate,
                      !.endDate = AddMonths(renewal.requestedStartDate, renewal.renewalDuration)]
  ELSE [rental EXCEPT !.status = "cancelled"]

rentalAfterRenewal(rental, renewal, approve) ==
  IF approve
  THEN [rental EXCEPT !.status = "active",
                      !.startDate = renewal.requestedStartDate,
                      !.endDate = AddMonths(renewal.requestedStartDate, renewal.renewalDuration)]
  ELSE [rental EXCEPT !.status = "active"]

ApproveRenewalOut(u, nid, approve) ==
  IF Role(u) # "landlord" THEN Reject(403)
  ELSE IF nid \notin Ids(db.renewals) THEN Reject(404)
  ELSE
    LET renewal == findById(db.renewals, nid)
    IN  IF renewal.rentalId \notin Ids(db.rentals) THEN Reject(404)
        ELSE
          LET rental == findById(db.rentals, renewal.rentalId)
          IN  IF rental.propertyId \notin Ids(db.properties) THEN Reject(404)
              ELSE
                LET property == findById(db.properties, rental.propertyId)
                    healed == healLandlordId(renewal, property)
                    decided == [healed EXCEPT !.status = IF approve THEN "approved" ELSE "rejected"]
                IN  IF ~authorised(renewal, property, u) THEN Reject(403)
                    ELSE IF renewal.status # "pending" THEN Reject(400)
                    ELSE Out(200,
                           <<Write("renewals", setAtId(db.renewals, nid, decided)),
                             Write("rentals", setAtId(db.rentals, rental.id,
                                     rentalAfterRenewal(rental, renewal, approve))),
                             Write("properties", db.properties)>>)

ApproveRenewal(u, nid, approve, fault) ==
  /\ resp.op = "none"
  /\ Respond("approveRenewal", nid, ApproveRenewalOut(u, nid, approve), fault)

(***************************************************************************)
(* PUT /api/properties/id: the landlord edits a property                   *)
(***************************************************************************)
\* request bodies: only the fields that are given are in the record
UpdateBodies ==
  {[available |-> TRUE], [rent |-> 0],
   [startDate |-> MakeDay(2025, 2, 5), endDate |-> MakeDay(2025, 3, 5)]}

given(body, field) == field \in DOMAIN body

\* variant: only rentals with status active block the update
updateBlocked_ActiveOnly(body, rentals, pid, t) ==
  /\ given(body, "available")
  /\ body.available = TRUE
  /\ \E i \in activeRentals(rentals, pid, t) : rentals[i].status = "active"

\* setting available to true is refused while a rental occupies the property
updateBlocked(body, rentals, pid, t) ==
  /\ given(body, "available")
  /\ body.available = TRUE
  /\ activeRentals(rentals, pid, t) # {}

\* variant: the rent is validated after the property has been written
UpdatePropertyOut_LateRentCheck(u, pid, body) ==
  IF Role(u) # "landlord" THEN Reject(403)
  ELSE IF pid \notin Ids(db.properties) THEN Reject(404)
  ELSE
    LET property == findById(db.properties, pid)
    IN  IF property.ownerId # u THEN Reject(403)
        ELSE IF updateBlocked(body, db.rentals, pid, now) THEN Reject(400)
        ELSE IF /\ given(body, "startDate") /\ given(body, "endDate")
                /\ ~ValidWindow(body.startDate, body.endDate, now) THEN Reject(400)
        ELSE Out(IF given(body, "rent") /\ body.rent <= 0 THEN 400 ELSE 200,
                 <<Write("properties", updateById(db.properties, pid, body))>>)

UpdatePropertyOut(u, pid, body) ==
  IF Role(u) # "landlord" THEN Reject(403)
  ELSE IF pid \notin Ids(db.properties) THEN Reject(404)
  ELSE
    LET property == findById(db.properties, pid)
    IN  IF property.ownerId # u THEN Reject(403)
        ELSE IF updateBlocked(body, db.rentals, pid, now) THEN Reject(400)
        ELSE IF given(body, "rent") /\ body.rent <= 0 THEN Reject(400)
        ELSE IF /\ given(body, "startDate") /\ given(body, "endDate")
                /\ ~ValidWindow(body.startDate, body.endDate, now) THEN Reject(400)
        ELSE Out(200, <<Write("properties", updateById(db.properties, pid, body))>>)

UpdateProperty(u, pid, body, fault) ==
  /\ resp.op = "none"
  /\ Respond("updateProperty", pid, UpdatePropertyOut(u, pid, body), fault)

(***************************************************************************)
(* POST /api/properties/id/list-again: offer the property again            *)
(***************************************************************************)
\* previousEndDate of the request body (Absent: not given)
PreviousEndDates == {Absent}

\* variant: the start date comes first
sortKey_StartFirst(r) ==
  IF r.startDate # Absent THEN ParseDate(r.startDate)
  ELSE IF r.endDate # Absent THEN ParseDate(r.endDate)
  ELSE 0

\* the date a rental is sorted by
sortKey(r) ==
  IF r.endDate # Absent THEN ParseDate(r.endDate)
  ELSE IF r.startDate # Absent THEN ParseDate(r.startDate)
  ELSE 0

RECURSIVE sortMostRecentFirst(_)
\* Array.prototype.sort with (a, b) => dateB - dateA: descending, stable
sortMostRecentFirst(seq) ==
  IF seq = <<>> THEN <<>>
  ELSE LET sorted == sortMostRecentFirst(SubSeq(seq, 1, Len(seq) - 1))
           r == seq[Len(seq)]
           k == Cardinality({i \in DOMAIN sorted : sortKey(sorted[i]) >= sortKey(r)})
       IN  SubSeq(sorted, 1, k) \o <<r>> \o SubSeq(sorted, k + 1, Len(sorted))

propertyRentals(rentals, pid) ==
  LET onProperty(r) == r.propertyId = pid
  IN  sortMostRecentFirst(SelectSeq(rentals, onProperty))

newStartDate(rentals, pid, previousEndDate, t) ==
  LET sorted == propertyRentals(rentals, pid)
      withEnd == {i \in DOMAIN sorted : sorted[i].endDate # Absent}
  IN  IF previousEndDate # Absent THEN previousEndDate
      ELSE IF Len(sorted) > 0
      THEN IF withEnd # {}
           THEN sorted[CHOOSE i \in withEnd : \A j \in withEnd : i <= j].endDate
           ELSE IF sorted[1].startDate # Absent
           THEN AddYears(sorted[1].startDate, 1)
           ELSE ToISODate(t)
      ELSE ToISODate(t)

ListAgainOut(u, pid, previousEndDate) ==
  IF Role(u) # "landlord" THEN Reject(403)
  ELSE IF pid \notin Ids(db.properties) THEN Reject(404)
  ELSE
    LET property == findById(db.properties, pid)
        start == newStartDate(db.rentals, pid, previousEndDate, now)
    IN  IF property.ownerId # u THEN Reject(403)
        ELSE IF activeRentals(db.rentals, pid, now) # {} THEN Reject(400)
        ELSE Out(200,
               <<Write("properties", updateById(db.properties, pid,
                         [available |-> TRUE, startDate |-> start,
                          endDate |-> AddMonths(start, 2)]))>>)

ListAgain(u, pid, previousEndDate, fault) ==
  /\ resp.op = "none"
  /\ Respond("listAgain", pid, ListAgainOut(u, pid, previousEndDate), fault)

(***************************************************************************)
(* POST /api/payments/create: the tenant pays a month's rent               *)
(***************************************************************************)
\* months "2025-01" and "2025-02"
PaymentMonths == {"2025-01", "2025-02"}
\* amounts offered: the rent of the seeded property and another amount
PaymentAmounts == {100, 150}

\* variant: only a payment still pending counts as existing
existingPayment_PendingOnly(payments, rid, month) ==
  \E i \in DOMAIN payments :
     payments[i].rentalId = rid /\ payments[i].month = month /\ payments[i].status = "pending"

existingPayment(payments, rid, month) ==
  \E i \in DOMAIN payments : payments[i].rentalId = rid /\ payments[i].month = month

\* variant: a rental that is terminating can be paid for as well
CreatePaymentOut_Terminating(u, rid, month, amount) ==
  IF Role(u) # "tenant" THEN Reject(403)
  ELSE IF amount <= 0 THEN Reject(400)
  ELSE IF rid \notin Ids(db.rentals) THEN Reject(404)
  ELSE
    LET rental == findById(db.rentals, rid)
        newPayment == [id |-> generateId(db.payments), rentalId |-> rid,
                       amount |-> amount, month |-> month, status |-> "paid"]
    IN  IF rental.tenantId # u THEN Reject(403)
        ELSE IF rental.status \notin {"active", "terminating"} THEN Reject(400)
        ELSE IF existingPayment(db.payments, rid, month) THEN Reject(400)
        ELSE IF amount # rental.monthlyRent THEN Reject(400)
        ELSE Out(200, <<Write("payments", Append(db.payments, newPayment))>>)

CreatePaymentOut(u, rid, month, amount) ==
  IF Role(u) # "tenant" THEN Reject(403)
  ELSE IF amount <= 0 THEN Reject(400)
  ELSE IF rid \notin Ids(db.rentals) THEN Reject(404)
  ELSE
    LET rental == findById(db.rentals, rid)
        newPayment == [id |-> generateId(db.payments), rentalId |-> rid,
                       amount |-> amount, month |-> month, status |-> "paid"]
    IN  IF rental.tenantId # u THEN Reject(403)
        ELSE IF rental.status # "active" THEN Reject(400)
        ELSE IF existingPayment(db.payments, rid, month) THEN Reject(400)
        ELSE IF amount # rental.monthlyRent THEN Reject(400)
        ELSE Out(200, <<Write("payments", Append(db.payments, newPayment))>>)

CreatePayment(u, rid, month, amount, fault) ==
  /\ resp.op = "none"
  /\ Respond("createPayment", rid, CreatePaymentOut(u, rid, month, amount), fault)

(***************************************************************************)
(* GET /api/dashboard/ministry: system-wide figures                        *)
(***************************************************************************)
YearDigits ==
  [y \in Years |->
     <<"2024", "2025", "2026", "2027", "2028", "2029", "2030",
       "2031", "2032", "2033", "2034", "2035", "2036">>[y - 2023]]

MonthDigits == <<"01", "02", "03", "04", "05", "06", "07", "08", "09", "10", "11", "12">>

\* new Date().toISOString().slice(0, 7)
currentMonth(t) ==
  YearDigits[getFullYear(ToISODate(t))] \o "-" \o MonthDigits[getMonth(ToISODate(t)) + 1]

\* rentals.filter((r) => r.status === "active").map((r) => r.id)
activeRentalIds(rentals) ==
  {i \in DOMAIN rentals : rentals[i].status = "active"}

compliantRentals(rentals, payments, t) ==
  {i \in activeRentalIds(rentals) :
     \E j \in DOMAIN payments :
        /\ payments[j].rentalId = rentals[i].id
        /\ payments[j].month = currentMonth(t)
        /\ payments[j].status = "paid"}

\* Math.round(x * 100) / 100 of the percentage 100 * n / d, in hundredths of
\* a percent
RoundedPercent(n, d) == (2 * 10000 * n + d) \div (2 * d)

complianceRate(rentals, payments, t) ==
  IF Cardinality(activeRentalIds(rentals)) > 0
  THEN RoundedPercent(Cardinality(compliantRentals(rentals, payments, t)),
                      Cardinality(activeRentalIds(rentals)))
  ELSE 0

\* the handler reads the store and writes nothing
MinistryDashboard(u) ==
  /\ resp.op = "none"
  /\ resp' = IF Role(u) # "ministry"
             THEN [op |-> "ministryDashboard", id |-> 0, code |-> 401]
             ELSE [op |-> "ministryDashboard", id |-> 0, code |-> 200,
                   activeRentals |-> Cardinality(activeRentalIds(db.rentals)),
                   complianceRate |-> complianceRate(db.rentals, db.payments, now)]
  /\ UNCHANGED <<db, now, calls>>

(***************************************************************************)
(* GET /api/dashboard/landlord: the landlord's view                        *)
(***************************************************************************)
landlordProperties(store, u) ==
  {store.properties[i].id : i \in {j \in DOMAIN store.properties : store.properties[j].ownerId = u}}

\* the landlord's rentals that are live and have not ended
dashboardActiveRentals(store, at, u) ==
  {store.rentals[i] : i \in {j \in DOMAIN store.rentals :
       /\ store.rentals[j].propertyId \in landlordProperties(store, u)
       /\ store.rentals[j].status \in LiveStatuses
       /\ (store.rentals[j].endDate # Absent => ParseDate(store.rentals[j].endDate) > at)}}

\* the pending terminations of rentals of the landlord's properties
pendingTerminations(store, u) ==
  {store.terminations[i] : i \in {j \in DOMAIN store.terminations :
       /\ store.terminations[j].rentalId \in Ids(store.rentals)
       /\ findById(store.rentals, store.terminations[j].rentalId).propertyId
            \in landlordProperties(store, u)
       /\ store.terminations[j].status = "pending"}}

LandlordDashboardOutOn(store, at, u) ==
  IF Role(u) # "landlord"
  THEN [code |-> 401, writes |-> <<>>]
  ELSE [code |-> 200, writes |-> <<>>,
        activeRentals |-> dashboardActiveRentals(store, at, u),
        pendingTerminations |-> pendingTerminations(store, u)]

(***************************************************************************)
(* Handlers served concurrently: every await readJSON and every await      *)
(* writeJSON is a step of its own, and steps of two requests interleave.   *)
(***************************************************************************)
\* the files a handler reads, in the order of its readJSON calls
ReadOrder(op) ==
  CASE op = "requestRental" -> <<"properties", "rentals">>
    [] op = "approveRental" -> <<"rentals", "properties">>
    [] op = "requestTermination" -> <<"rentals", "terminations">>
    [] op = "landlordDashboard" -> <<"properties", "rentals", "payments", "terminations">>

NothingRead == [f \in Files |-> <<>>]

\* what the handler answers and writes, computed from what it has read
OutcomeOn(call, store, at) ==
  CASE call.op = "requestRental" -> RequestRentalOutOn(store, at, call.u, call.id, call.arg)
    [] call.op = "approveRental" -> ApproveRentalOutOn(store, at, call.u, call.id, call.arg)
    [] call.op = "requestTermination" -> RequestTerminationOutOn(store, at, call.u, call.id, call.arg)
    [] call.op = "landlordDashboard" -> LandlordDashboardOutOn(store, at, call.u)

\* the rentals and the properties a mutating request is about
TargetRentals(op, id) ==
  IF op \in {"approveRental", "requestTermination"} THEN {id} ELSE {}

TargetProperties(op, id) ==
  IF op = "requestRental" THEN {id}
  ELSE IF op \in {"approveRental", "requestTermination"} /\ id \in Ids(db.rentals)
  THEN {findById(db.rentals, id).propertyId}
  ELSE {}

InFlight(c) == c.op # "none" /\ c.pc # "done"

\* a handler has written one of its files and not yet the last
MidWrite(cs) ==
  \E s \in Slots : cs[s].op # "none" /\ cs[s].pc = "write" /\ cs[s].written > 0

\* every dashboard that is still reading notes the store d when no handler is
\* between two of its writes
Observe(cs, d) ==
  [s \in Slots |->
     IF cs[s].op = "landlordDashboard" /\ cs[s].pc = "read" /\ ~MidWrite(cs)
     THEN [cs[s] EXCEPT !.stores = @ \cup {d}]
     ELSE cs[s]]

\* a request arrives; mutating requests on the same rental or the same
\* property are not served at the same time
StartCall(s, op, u, id, arg) ==
  /\ calls[s].op = "none"
  /\ \A o \in Slots \ {s} :
        InFlight(calls[o]) =>
          /\ calls[o].rentals \cap TargetRentals(op, id) = {}
          /\ calls[o].properties \cap TargetProperties(op, id) = {}
  /\ calls' = Observe([calls EXCEPT ![s] =
                 [op |-> op, u |-> u, id |-> id, arg |-> arg, pc |-> "read",
                  toRead |-> ReadOrder(op), snap |-> NothingRead,
                  out |-> Reject(0), written |-> 0, stores |-> {},
                  rentals |-> TargetRentals(op, id),
                  properties |-> TargetProperties(op, id)]], db)
  /\ UNCHANGED <<db, now, resp>>

\* await readJSON(file); after the last one the handler computes its outcome
ReadStep(s) ==
  /\ calls[s].op # "none"
  /\ calls[s].pc = "read"
  /\ LET c == calls[s]
         snap == [c.snap EXCEPT ![Head(c.toRead)] = db[Head(c.toRead)]]
         rest == Tail(c.toRead)
         out == OutcomeOn(c, snap, now)
     IN  calls' = Observe([calls EXCEPT ![s] =
                    IF rest # <<>>
                    THEN [c EXCEPT !.toRead = rest, !.snap = snap]
                    ELSE [c EXCEPT !.toRead = rest, !.snap = snap, !.out = out,
                                   !.pc = IF out.writes = <<>> THEN "done" ELSE "write"]], db)
  /\ UNCHANGED <<db, now, resp>>

\* await writeJSON(file, data): the file is replaced as a whole
WriteStep(s) ==
  /\ calls[s].op # "none"
  /\ calls[s].pc = "write"
  /\ LET c == calls[s]
         w == c.out.writes[c.written + 1]
     IN  /\ db' = [db EXCEPT ![w.file] = w.data]
         /\ calls' = Observe([calls EXCEPT ![s] =
                        [c EXCEPT !.written = c.written + 1,
                                  !.pc = IF c.written + 1 = Len(c.out.writes)
                                         THEN "done" ELSE "write"]], db')
  /\ Len(db'.rentals) <= MaxConcurrentRentals
  /\ Len(db'.terminations) <= MaxLifecycleTerminations
  /\ UNCHANGED <<now, resp>>

\* the response reaches the caller
DeliverCall(s) ==
  /\ calls[s].op # "none"
  /\ calls[s].pc = "done"
  /\ calls' = [calls EXCEPT ![s] = Idle]
  /\ UNCHANGED <<db, now, resp>>

(***************************************************************************)
(* Time                                                                    *)
(***************************************************************************)
\* variant: a live rental whose end date has passed becomes completed
Tick_Lapses ==
  /\ resp.op = "none"
  /\ \E i \in DOMAIN Clock :
        /\ Clock[i] > now
        /\ now' = Clock[i]
        /\ db' = [db EXCEPT !.rentals =
                    [j \in DOMAIN db.rentals |->
                       IF /\ db.rentals[j].status \in LiveStatuses
                          /\ db.rentals[j].endDate # Absent
                          /\ ParseDate(db.rentals[j].endDate) <= Clock[i]
                       THEN [db.rentals[j] EXCEPT !.status = "completed"]
                       ELSE db.rentals[j]]]
  /\ UNCHANGED <<resp, calls>>

Tick ==
  /\ resp.op = "none"
  /\ \E i \in DOMAIN Clock : Clock[i] > now /\ now' = Clock[i]
  /\ UNCHANGED <<db, resp, calls>>

(***************************************************************************)
(* Specification                                                           *)
(***************************************************************************)
\* Landlord l1 has listed one property for 2025-01-01..2025-03-01 (POST
\* /api/properties on 2024-12-31); nothing else is stored yet.
Init ==
  /\ db = [f \in Files |->
             IF f = "properties"
             THEN <<[id |-> 1, ownerId |-> "l1", rent |-> 100, available |-> TRUE,
                     startDate |-> MakeDay(2025, 0, 1), endDate |-> MakeDay(2025, 2, 1)]>>
             ELSE <<>>]
  /\ now = Clock[1]
  /\ resp = Idle
  /\ calls = NoCalls

\* the collections stay within the bounds of the model
Fits(maxTerminations, maxRenewals) ==
  /\ Len(db'.rentals) <= MaxRentals
  /\ Len(db'.terminations) <= maxTerminations
  /\ Len(db'.renewals) <= maxRenewals

Next ==
  \/ \E u \in Users, pid \in PropertyIds, d \in RentalDurations :
        RequestRental(u, pid, d, 0) /\ Fits(MaxTerminations, MaxRenewals)
  \/ \E u \in Users, rid \in RentalIds, a \in {"approve", "decline"} : ApproveRental(u, rid, a, 0)
  \/ \E u \in Users, rid \in RentalIds, d \in TerminationDates :
        RequestTermination(u, rid, d, 0) /\ Fits(MaxTerminations, MaxRenewals)
  \/ \E u \in Users, tid \in TerminationIds, a \in BOOLEAN : ApproveTermination(u, tid, a, 0)
  \/ \E u \in Users, rid \in RentalIds, d \in RenewalDurations :
        RequestRenewal(u, rid, d, 0) /\ Fits(MaxTerminations, MaxRenewals)
  \/ \E u \in Users, nid \in RenewalIds, a \in BOOLEAN : ApproveRenewal(u, nid, a, 0)
  \/ \E u \in Users, pid \in PropertyIds, b \in UpdateBodies : UpdateProperty(u, pid, b, 0)
  \/ \E u \in Users, pid \in PropertyIds, d \in PreviousEndDates : ListAgain(u, pid, d, 0)
  \/ Deliver
  \/ Tick

Spec == Init /\ [][Next]_vars

\* The same requests with a storage fault: the fault-th writeJSON of the
\* handler throws (fault = 0: none does).
Faults == 0..3

NextFault ==
  \/ \E f \in Faults, d \in RentalDurations :
        RequestRental("t1", 1, d, f) /\ Fits(MaxTerminations, MaxRenewals)
  \/ \E f \in Faults, u \in {"t1", "l1"}, rid \in RentalIds, a \in {"approve", "decline"} :
        ApproveRental(u, rid, a, f)
  \/ \E f \in Faults, rid \in RentalIds, d \in TerminationDates :
        RequestTermination("t1", rid, d, f) /\ Fits(MaxTerminations, MaxRenewals)
  \/ \E f \in Faults, tid \in TerminationIds, a \in BOOLEAN : ApproveTermination("l1", tid, a, f)
  \/ \E f \in Faults, rid \in RentalIds, d \in RenewalDurations :
        RequestRenewal("t1", rid, d, f) /\ Fits(MaxTerminations, MaxRenewals)
  \/ \E f \in Faults, nid \in RenewalIds, a \in BOOLEAN : ApproveRenewal("l1", nid, a, f)
  \/ \E f \in Faults, b \in UpdateBodies : UpdateProperty("l1", 1, b, f)
  \/ \E f \in Faults, d \in PreviousEndDates : ListAgain("l1", 1, d, f)
  \/ Deliver
  \/ Tick

SpecFault == Init /\ [][NextFault]_vars

\* Tenant t1 and landlord l1 alone, every write succeeding, with room for
\* repeated terminations and renewals of the same rental.
\* requested end dates: those of Spec and 2025-03-30
LifecycleTerminationDates == TerminationDates \cup {MakeDay(2025, 2, 30)}
LifecycleRenewalDurations == {0, 1, 24, 25}

NextLifecycle ==
  \/ \E d \in RentalDurations :
        RequestRental("t1", 1, d, 0) /\ Fits(MaxLifecycleTerminations, MaxLifecycleRenewals)
  \/ \E rid \in RentalIds, a \in {"approve", "decline"} : ApproveRental("l1", rid, a, 0)
  \/ \E rid \in RentalIds, d \in LifecycleTerminationDates :
        RequestTermination("t1", rid, d, 0) /\ Fits(MaxLifecycleTerminations, MaxLifecycleRenewals)
  \/ \E tid \in 1..MaxLifecycleTerminations, a \in BOOLEAN : ApproveTermination("l1", tid, a, 0)
  \/ \E rid \in RentalIds, d \in LifecycleRenewalDurations :
        RequestRenewal("t1", rid, d, 0) /\ Fits(MaxLifecycleTerminations, MaxLifecycleRenewals)
  \/ \E nid \in 1..MaxLifecycleRenewals, a \in BOOLEAN : ApproveRenewal("l1", nid, a, 0)
  \/ Deliver
  \/ Tick

SpecLifecycle == Init /\ [][NextLifecycle]_vars

\* Stores that hold records written before the present handlers: a property
\* without an offer window, a property whose window started on 2024-12-01,
\* and a pending rental without end date whose landlordId is not the
\* property's owner (stale, or empty).
LegacyProperty(startDate, endDate) ==
  [id |-> 1, ownerId |-> "l1", rent |-> 100, available |-> TRUE,
   startDate |-> startDate, endDate |-> endDate]

LegacyRental(landlordId) ==
  [id |-> 1, tenantId |-> "t1", landlordId |-> landlordId, propertyId |-> 1,
   startDate |-> MakeDay(2025, 0, 1), endDate |-> Absent,
   status |-> "pending", monthlyRent |-> 100]

LegacyStore(property, rentals) ==
  [f \in Files |-> IF f = "properties" THEN <<property>>
                   ELSE IF f = "rentals" THEN rentals
                   ELSE <<>>]

LegacyStores ==
  {LegacyStore(LegacyProperty(Absent, Absent), <<>>),
   LegacyStore(LegacyProperty(MakeDay(2024, 11, 1), MakeDay(2025, 1, 1)), <<>>),
   LegacyStore(LegacyProperty(MakeDay(2025, 0, 1), MakeDay(2025, 2, 1)), <<LegacyRental("l2")>>),
   LegacyStore(LegacyProperty(MakeDay(2025, 0, 1), MakeDay(2025, 2, 1)), <<LegacyRental(NoUser)>>)}

InitLegacy ==
  /\ db \in LegacyStores
  /\ now = Clock[1]
  /\ resp = Idle
  /\ calls = NoCalls

\* inputs of the requests in SpecLegacy
LegacyRentalDurations == {Absent, 0, 1, 2, 14, 24, 25}
\* previousEndDate: not given, or 2025-04-01
LegacyPreviousEndDates == {Absent, MakeDay(2025, 3, 1)}

NextLegacy ==
  \/ \E d \in LegacyRentalDurations :
        RequestRental("t1", 1, d, 0) /\ Fits(MaxTerminations, MaxRenewals)
  \/ \E u \in Landlords, rid \in RentalIds, a \in {"approve", "decline"} :
        ApproveRental(u, rid, a, 0)
  \/ \E rid \in RentalIds :
        RequestTermination("t1", rid, MakeDay(2025, 4, 5), 0) /\ Fits(MaxTerminations, MaxRenewals)
  \/ \E u \in Landlords, tid \in TerminationIds, a \in BOOLEAN : ApproveTermination(u, tid, a, 0)
  \/ \E rid \in RentalIds :
        RequestRenewal("t1", rid, 1, 0) /\ Fits(MaxTerminations, MaxRenewals)
  \/ \E u \in Landlords, nid \in RenewalIds, a \in BOOLEAN : ApproveRenewal(u, nid, a, 0)
  \/ \E d \in LegacyPreviousEndDates : ListAgain("l1", 1, d, 0)
  \/ Deliver
  \/ Tick

SpecLegacy == InitLegacy /\ [][NextLegacy]_vars

\* Rent and payments: both tenants rent property 1 of landlord l1, whose rent
\* the landlord changes, and pay months of their rentals.
RentUpdateBodies == {[rent |-> 150], [rent |-> 0], [available |-> TRUE]}

FitsPayments ==
  /\ Fits(MaxTerminations, MaxRenewals)
  /\ Len(db'.payments) <= MaxPayments

NextPayments ==
  \/ \E u \in Tenants : RequestRental(u, 1, Absent, 0) /\ FitsPayments
  \/ \E rid \in RentalIds, a \in {"approve", "decline"} : ApproveRental("l1", rid, a, 0)
  \/ \E u \in Tenants, rid \in RentalIds :
        RequestTermination(u, rid, MakeDay(2025, 4, 5), 0) /\ FitsPayments
  \/ \E tid \in TerminationIds, a \in BOOLEAN : ApproveTermination("l1", tid, a, 0)
  \/ \E u \in Tenants, rid \in RentalIds : RequestRenewal(u, rid, 1, 0) /\ FitsPayments
  \/ \E nid \in RenewalIds, a \in BOOLEAN : ApproveRenewal("l1", nid, a, 0)
  \/ \E b \in RentUpdateBodies : UpdateProperty("l1", 1, b, 0)
  \/ \E u \in Tenants, rid \in RentalIds, m \in PaymentMonths, a \in PaymentAmounts :
        CreatePayment(u, rid, m, a, 0) /\ FitsPayments
  \/ Deliver
  \/ Tick

SpecPayments == Init /\ [][NextPayments]_vars

\* The cap on a tenant's rentals: landlord l1 has listed 21 properties like
\* the one of Init and tenant t1 has requested the first 19 of them, all on
\* 2024-12-31.
CapProperties == 21
CapRequested == 19

CapStore ==
  [f \in Files |->
     IF f = "properties"
     THEN [i \in 1..CapProperties |->
             [id |-> i, ownerId |-> "l1", rent |-> 100, available |-> TRUE,
              startDate |-> MakeDay(2025, 0, 1), endDate |-> MakeDay(2025, 2, 1)]]
     ELSE IF f = "rentals"
     THEN [i \in 1..CapRequested |->
             [id |-> i, tenantId |-> "t1", landlordId |-> "l1", propertyId |-> i,
              startDate |-> MakeDay(2025, 0, 1), endDate |-> MakeDay(2025, 2, 1),
              status |-> "pending", monthlyRent |-> 100]]
     ELSE <<>>]

InitCap ==
  /\ db = CapStore
  /\ now = Clock[1]
  /\ resp = Idle
  /\ calls = NoCalls

\* the properties not requested yet, and the rentals the landlord decides
CapPropertyIds == (CapRequested + 1)..CapProperties
CapRentalIds == {1} \cup ((CapRequested + 1)..MaxCapRentals)

NextCap ==
  \/ \E u \in Tenants, pid \in CapPropertyIds :
        RequestRental(u, pid, Absent, 0) /\ Len(db'.rentals) <= MaxCapRentals
  \/ \E rid \in CapRentalIds, a \in {"approve", "decline"} : ApproveRental("l1", rid, a, 0)
  \/ Deliver

SpecCap == InitCap /\ [][NextCap]_vars

\* The ministry's view: tenants pay the month of the request (2024-12 or
\* 2025-03) and the rentals go through termination and renewal.
MinistryMonths == {"2024-12", "2025-03"}

NextMinistry ==
  \/ \E u \in Tenants : RequestRental(u, 1, Absent, 0) /\ FitsPayments
  \/ \E rid \in RentalIds, a \in {"approve", "decline"} : ApproveRental("l1", rid, a, 0)
  \/ \E u \in Tenants, rid \in RentalIds :
        RequestTermination(u, rid, MakeDay(2025, 4, 5), 0) /\ FitsPayments
  \/ \E tid \in TerminationIds, a \in BOOLEAN : ApproveTermination("l1", tid, a, 0)
  \/ \E u \in Tenants, rid \in RentalIds : RequestRenewal(u, rid, 1, 0) /\ FitsPayments
  \/ \E nid \in RenewalIds, a \in BOOLEAN : ApproveRenewal("l1", nid, a, 0)
  \/ \E u \in Tenants, rid \in RentalIds, m \in MinistryMonths :
        CreatePayment(u, rid, m, 100, 0) /\ FitsPayments
  \/ \E u \in Ministry \cup {"l1"} : MinistryDashboard(u)
  \/ Deliver
  \/ Tick

SpecMinistry == Init /\ [][NextMinistry]_vars

\* Concurrent requests: landlord l1 has listed properties 1 and 2, tenant t1
\* has requested property 1 (all on 2024-12-31).
ConcurrentStore ==
  [f \in Files |->
     IF f = "properties"
     THEN [i \in 1..2 |->
             [id |-> i, ownerId |-> "l1", rent |-> 100, available |-> TRUE,
              startDate |-> MakeDay(2025, 0, 1), endDate |-> MakeDay(2025, 2, 1)]]
     ELSE IF f = "rentals"
     THEN <<[id |-> 1, tenantId |-> "t1", landlordId |-> "l1", propertyId |-> 1,
             startDate |-> MakeDay(2025, 0, 1), endDate |-> MakeDay(2025, 2, 1),
             status |-> "pending", monthlyRent |-> 100]>>
     ELSE <<>>]

InitConcurrent ==
  /\ db = ConcurrentStore
  /\ now = Clock[1]
  /\ resp = Idle
  /\ calls = NoCalls

NextConcurrent ==
  \/ \E s \in Slots : StartCall(s, "requestRental", "t2", 2, Absent)
  \/ \E s \in Slots, rid \in RentalIds, a \in {"approve", "decline"} :
        StartCall(s, "approveRental", "l1", rid, a)
  \/ \E s \in Slots : StartCall(s, "requestTermination", "t1", 1, MakeDay(2025, 4, 5))
  \/ \E s \in Slots : StartCall(s, "landlordDashboard", "l1", 0, Absent)
  \/ \E s \in Slots : ReadStep(s)
  \/ \E s \in Slots : WriteStep(s)
  \/ \E s \in Slots : DeliverCall(s)

SpecConcurrent == InitConcurrent /\ [][NextConcurrent]_vars

(***************************************************************************)
(* Properties                                                              *)
(***************************************************************************)
rentalOf(d, rid) == findById(d.rentals, rid)

pendingFor(subRequests, rid) ==
  {j \in DOMAIN subRequests : subRequests[j].rentalId = rid /\ subRequests[j].status = "pending"}

\* the instants at which occupancy is examined
Instants == {Clock[i] : i \in DOMAIN Clock}

\* C1: every property has at most one rental that is active, renewal_pending
\* or terminating with an end date that is absent or after t, at every time t.
C1_SingleLiveRental ==
  \A p \in DOMAIN db.properties, t \in Instants :
     Cardinality(activeRentals(db.rentals, db.properties[p].id, t)) <= 1

\* C2: a rental is terminating exactly when it has exactly one pending
\* termination, and renewal_pending exactly when it has exactly one pending
\* renewal; no pending sub-request refers to a rental that is not stored.
C2_StatusSubRequestDuality ==
  /\ \A i \in DOMAIN db.rentals :
       LET r == db.rentals[i]
       IN  /\ r.status = "terminating" <=> Cardinality(pendingFor(db.terminations, r.id)) = 1
           /\ r.status = "renewal_pending" <=> Cardinality(pendingFor(db.renewals, r.id)) = 1
           /\ r.status # "terminating" => pendingFor(db.terminations, r.id) = {}
           /\ r.status # "renewal_pending" => pendingFor(db.renewals, r.id) = {}
  /\ \A j \in DOMAIN db.terminations :
       db.terminations[j].status = "pending" => db.terminations[j].rentalId \in Ids(db.rentals)
  /\ \A j \in DOMAIN db.renewals :
       db.renewals[j].status = "pending" => db.renewals[j].rentalId \in Ids(db.rentals)

\* a rental whose first termination was rejected is terminating again, with
\* one open termination next to the decided one, after a renewal of its own
C2_Witness ==
  \E i \in DOMAIN db.rentals :
    /\ db.rentals[i].status = "terminating"
    /\ Cardinality(pendingFor(db.terminations, db.rentals[i].id)) = 1
    /\ \E j \in DOMAIN db.terminations :
         db.terminations[j].rentalId = db.rentals[i].id /\ db.terminations[j].status = "rejected"
    /\ \E j \in DOMAIN db.renewals :
         db.renewals[j].rentalId = db.rentals[i].id /\ db.renewals[j].status # "pending"

\* C3: every change of a rental's status is one of the seven edges of the state
\* diagram, and a completed or cancelled rental keeps its status.
C3_StatusEdges ==
  [][\A i \in DOMAIN db.rentals :
       /\ i \in DOMAIN db'.rentals
       /\ db'.rentals[i].id = db.rentals[i].id
       /\ db'.rentals[i].status # db.rentals[i].status
            => <<db.rentals[i].status, db'.rentals[i].status>> \in
                 {<<"pending", "active">>, <<"pending", "cancelled">>,
                  <<"active", "terminating">>, <<"terminating", "completed">>,
                  <<"terminating", "active">>, <<"active", "renewal_pending">>,
                  <<"renewal_pending", "active">>}
       /\ db.rentals[i].status \in {"completed", "cancelled"}
            => db'.rentals[i].status = db.rentals[i].status]_vars

\* one rental went pending -> active -> terminating -> completed, another was cancelled
C3_Witness ==
  /\ \E i \in DOMAIN db.rentals : db.rentals[i].status = "completed"
  /\ \E i \in DOMAIN db.rentals : db.rentals[i].status = "cancelled"

\* C4: approving or declining a rental that is not pending answers with an
\* error and leaves the store as it was.
C4_DecidedRentalNotDecidedAgain ==
  [][(/\ resp'.op = "approveRental"
      /\ resp'.id \in Ids(db.rentals)
      /\ rentalOf(db, resp'.id).status # "pending")
       => (resp'.code \in {400, 403} /\ db' = db)]_vars

\* the owner's second decision on a decided rental was answered 400
C4_Witness ==
  /\ resp.op = "approveRental"
  /\ resp.code = 400
  /\ resp.id \in Ids(db.rentals)
  /\ rentalOf(db, resp.id).status \in {"active", "cancelled"}

\* C5: a rental request for a property that a rental occupies now is rejected
\* and creates no rental, whatever the property's available flag says.
C5_RequestConsultsResolver ==
  [][(/\ resp'.op = "requestRental"
      /\ resp'.id \in Ids(db.properties)
      /\ activeRentals(db.rentals, resp'.id, now) # {})
       => (resp'.code # 200 /\ db'.rentals = db.rentals)]_vars

\* C6: a request answered with a client error (400, 403, 404) leaves every
\* stored collection exactly as it was.
C6_RejectionChangesNothing ==
  [][(resp'.op # "none" /\ resp'.code \in {400, 403, 404}) => db' = db]_vars

\* a rejected request, answered while rentals and sub-requests are stored
C6_Witness ==
  /\ resp.op \in {"approveTermination", "approveRenewal", "updateProperty"}
  /\ resp.code \in {400, 403, 404}
  /\ db.rentals # <<>>
  /\ db.terminations # <<>>
  /\ db.renewals # <<>>

\* C7: a request that ends with an internal error (500) has committed nothing.
C7_AtomicUnderStorageFailure ==
  [][(resp'.op # "none" /\ resp'.code = 500) => db' = db]_vars

terminationOf(d, tid) == findById(d.terminations, tid)

ownerOfRental(d, rental) == findById(d.properties, rental.propertyId).ownerId

C9_ApproveTermination ==
  [][\A u \in Landlords, tid \in TerminationIds :
       (/\ resp'.op = "approveTermination"
        /\ resp'.id = tid
        /\ tid \in Ids(db.terminations)
        /\ terminationOf(db, tid).status = "pending"
        /\ ownerOfRental(db, rentalOf(db, terminationOf(db, tid).rentalId)) = u
        /\ ApproveTermination(u, tid, TRUE, 0))
       => /\ resp'.code = 200
          /\ terminationOf(db', tid).status = "approved"
          /\ rentalOf(db', terminationOf(db, tid).rentalId).status = "completed"
          /\ rentalOf(db', terminationOf(db, tid).rentalId).endDate
               = terminationOf(db, tid).requestedEndDate
          /\ db'.properties = db.properties]_vars

\* a termination was approved and the property is still flagged unavailable
C9_Witness ==
  /\ resp.op = "approveTermination"
  /\ resp.code = 200
  /\ terminationOf(db, resp.id).status = "approved"
  /\ rentalOf(db, terminationOf(db, resp.id).rentalId).status = "completed"
  /\ ~findById(db.properties, rentalOf(db, terminationOf(db, resp.id).rentalId).propertyId).available

\* C10: the owner's rejection of a pending termination marks it rejected and
\* makes the rental active again with the end date the request wrote.
C10_RejectTermination ==
  [][\A u \in Landlords, tid \in TerminationIds :
       (/\ resp'.op = "approveTermination"
        /\ resp'.id = tid
        /\ tid \in Ids(db.terminations)
        /\ terminationOf(db, tid).status = "pending"
        /\ ownerOfRental(db, rentalOf(db, terminationOf(db, tid).rentalId)) = u
        /\ ApproveTermination(u, tid, FALSE, 0))
       => /\ resp'.code = 200
          /\ terminationOf(db', tid).status = "rejected"
          /\ rentalOf(db', terminationOf(db, tid).rentalId).status = "active"
          /\ rentalOf(db', terminationOf(db, tid).rentalId).endDate
               = terminationOf(db, tid).requestedEndDate]_vars

\* a termination was rejected and the rental, active again, ends on the
\* requested date, not two months after its start as before the request
C10_Witness ==
  /\ resp.op = "approveTermination"
  /\ resp.code = 200
  /\ terminationOf(db, resp.id).status = "rejected"
  /\ LET r == rentalOf(db, terminationOf(db, resp.id).rentalId)
     IN  /\ r.status = "active"
         /\ r.endDate = terminationOf(db, resp.id).requestedEndDate
         /\ r.endDate # AddMonths(r.startDate, 2)

renewalOf(d, nid) == findById(d.renewals, nid)

\* C11: a renewal request by the rental's tenant on an active rental without
\* pending renewal is accepted exactly when the duration is in 1..24; accepted,
\* it appends one pending renewal starting the day after the rental's end date
\* and makes the rental renewal_pending without touching its dates; otherwise
\* it is rejected and nothing changes.
C11_RenewalRequest ==
  [][\A u \in Tenants, rid \in RentalIds, d \in LifecycleRenewalDurations :
       (/\ resp'.op = "requestRenewal"
        /\ resp'.id = rid
        /\ rid \in Ids(db.rentals)
        /\ rentalOf(db, rid).tenantId = u
        /\ rentalOf(db, rid).status = "active"
        /\ pendingFor(db.renewals, rid) = {}
        /\ RequestRenewal(u, rid, d, 0))
       => IF d \in 1..24
          THEN /\ resp'.code = 200
               /\ Len(db'.renewals) = Len(db.renewals) + 1
               /\ SubSeq(db'.renewals, 1, Len(db.renewals)) = db.renewals
               /\ LET n == db'.renewals[Len(db'.renewals)]
                  IN  /\ n.rentalId = rid
                      /\ n.status = "pending"
                      /\ n.renewalDuration = d
                      /\ n.requestedStartDate = rentalOf(db, rid).endDate + 1
               /\ rentalOf(db', rid).status = "renewal_pending"
               /\ rentalOf(db', rid).startDate = rentalOf(db, rid).startDate
               /\ rentalOf(db', rid).endDate = rentalOf(db, rid).endDate
          ELSE resp'.code = 400 /\ db' = db]_vars

\* a 24-month renewal of a rental that was renewed before has been accepted
C11_Witness ==
  /\ resp.op = "requestRenewal"
  /\ resp.code = 200
  /\ rentalOf(db, resp.id).status = "renewal_pending"
  /\ Len(db.renewals) = 2
  /\ db.renewals[2].status = "pending"
  /\ db.renewals[2].renewalDuration = 24
  /\ db.renewals[2].requestedStartDate = rentalOf(db, resp.id).endDate + 1

\* C12: the owner's approval of a pending renewal makes the rental active from
\* the renewal's requestedStartDate and ends it a whole number of months
\* (renewalDuration) later: in the month that many months after the start, on
\* the same day or, where the month is shorter, an earlier one; a rejection
\* makes the rental active and keeps both dates; either way the renewal is no
\* longer pending.
C12_RenewalDecision ==
  [][\A u \in Landlords, nid \in 1..MaxLifecycleRenewals, a \in BOOLEAN :
       (/\ resp'.op = "approveRenewal"
        /\ resp'.id = nid
        /\ nid \in Ids(db.renewals)
        /\ renewalOf(db, nid).status = "pending"
        /\ ownerOfRental(db, rentalOf(db, renewalOf(db, nid).rentalId)) = u
        /\ ApproveRenewal(u, nid, a, 0))
       => LET n == renewalOf(db, nid)
              before == rentalOf(db, n.rentalId)
              after == rentalOf(db', n.rentalId)
          IN  /\ resp'.code = 200
              /\ renewalOf(db', nid).status # "pending"
              /\ after.status = "active"
              /\ IF a
                 THEN /\ after.startDate = n.requestedStartDate
                      /\ MonthsDiff(after.startDate, after.endDate) = n.renewalDuration
                      /\ getDate(after.endDate) <= getDate(after.startDate)
                 ELSE /\ after.startDate = before.startDate
                      /\ after.endDate = before.endDate]_vars

propertyOf(d, pid) == findById(d.properties, pid)

\* C13: the owner's approval of a pending rental makes it active, keeps its end
\* date (one year after its start date when it had none) and sets the
\* property's available flag to false; a decline makes it cancelled and leaves
\* the properties as they were.
C13_RentalDecision ==
  [][\A u \in Landlords, rid \in RentalIds, a \in {"approve", "decline"} :
       (/\ resp'.op = "approveRental"
        /\ resp'.id = rid
        /\ rid \in Ids(db.rentals)
        /\ rentalOf(db, rid).status = "pending"
        /\ ownerOfRental(db, rentalOf(db, rid)) = u
        /\ ApproveRental(u, rid, a, 0))
       => LET before == rentalOf(db, rid)
              after == rentalOf(db', rid)
          IN  /\ resp'.code = 200
              /\ IF a = "approve"
                 THEN /\ after.status = "active"
                      /\ IF before.endDate # Absent
                         THEN after.endDate = before.endDate
                         ELSE /\ getFullYear(after.endDate) = getFullYear(before.startDate) + 1
                              /\ getMonth(after.endDate) = getMonth(before.startDate)
                              /\ getDate(after.endDate) = getDate(before.startDate)
                      /\ ~propertyOf(db', before.propertyId).available
                 ELSE /\ after.status = "cancelled"
                      /\ db'.properties = db.properties]_vars

\* a rental stored without end date was approved and now ends a year after
\* its start; the property is no longer available
C13_Witness ==
  /\ resp.op = "approveRental"
  /\ resp.code = 200
  /\ rentalOf(db, resp.id).status = "active"
  /\ rentalOf(db, resp.id).startDate = MakeDay(2025, 0, 1)
  /\ rentalOf(db, resp.id).endDate = MakeDay(2026, 0, 1)
  /\ ~propertyOf(db, 1).available

C15_UpdateBlocked ==
  [][\A pid \in PropertyIds :
       (/\ resp'.op = "updateProperty"
        /\ resp'.id = pid
        /\ pid \in Ids(db.properties)
        /\ \E i \in DOMAIN db.rentals :
             /\ db.rentals[i].propertyId = pid
             /\ db.rentals[i].status \in {"active", "renewal_pending", "terminating"}
             /\ (db.rentals[i].endDate = Absent \/ ParseDate(db.rentals[i].endDate) > now))
       => /\ (propertyOf(db', pid).available => propertyOf(db, pid).available)
          /\ \A u \in Users :
               UpdateProperty(u, pid, [available |-> TRUE], 0) => (resp'.code # 200 /\ db' = db)]_vars

\* an update was rejected while a terminating rental with a later end date
\* occupies the unavailable property
C15_Witness ==
  /\ resp.op = "updateProperty"
  /\ resp.code = 400
  /\ ~propertyOf(db, resp.id).available
  /\ \E i \in activeRentals(db.rentals, resp.id, now) : db.rentals[i].status = "terminating"

\* C16: no two stored payments have the same rentalId and month, and a
\* payment creation for a rental and month that already have a payment is
\* rejected and stores nothing.
C16_PaymentUniqueness ==
  [][/\ \A i, j \in DOMAIN db'.payments :
          (/\ db'.payments[i].rentalId = db'.payments[j].rentalId
           /\ db'.payments[i].month = db'.payments[j].month) => i = j
     /\ \A u \in Tenants, rid \in RentalIds, m \in PaymentMonths, a \in PaymentAmounts :
          (/\ resp'.op = "createPayment"
           /\ resp'.id = rid
           /\ \E i \in DOMAIN db.payments :
                db.payments[i].rentalId = rid /\ db.payments[i].month = m
           /\ CreatePayment(u, rid, m, a, 0))
          => (resp'.code \in {400, 403} /\ db' = db)]_vars

\* both months of one rental are paid and a further payment was rejected
C16_Witness ==
  /\ resp.op = "createPayment"
  /\ resp.code = 400
  /\ rentalOf(db, resp.id).status = "active"
  /\ Len(db.payments) = 2
  /\ db.payments[1].rentalId = resp.id
  /\ db.payments[2].rentalId = resp.id
  /\ db.payments[1].month # db.payments[2].month

\* C17: a rental is created with the property's rent of that moment as its
\* monthlyRent, and no step changes the monthlyRent of a stored rental.
C17_MonthlyRentFixed ==
  [][/\ \A i \in DOMAIN db.rentals :
          /\ i \in DOMAIN db'.rentals
          /\ db'.rentals[i].monthlyRent = db.rentals[i].monthlyRent
     /\ \A i \in DOMAIN db'.rentals \ DOMAIN db.rentals :
          db'.rentals[i].monthlyRent = propertyOf(db, db'.rentals[i].propertyId).rent]_vars

\* a rental requested at rent 100 is active, renewed and still at 100 after
\* the property's rent became 150, at which a later rental was requested
C17_Witness ==
  /\ propertyOf(db, 1).rent = 150
  /\ Len(db.rentals) = 2
  /\ db.rentals[1].monthlyRent = 100
  /\ db.rentals[1].status = "active"
  /\ \E j \in DOMAIN db.renewals :
       db.renewals[j].rentalId = db.rentals[1].id /\ db.renewals[j].status = "approved"
  /\ db.rentals[2].monthlyRent = 150

\* C18: a successful rental request appends one rental and leaves the stored
\* ones and the properties as they were; the new rental is pending, belongs
\* to the caller and to the property's owner, starts on the property's
\* startDate when that is today or later and today otherwise, and ends a
\* whole number of months later: duration calendar months on, on the same
\* day of the month or an earlier one.
C18_RequestRental ==
  [][\A u \in Tenants, pid \in PropertyIds, d \in LegacyRentalDurations :
       (/\ resp'.op = "requestRental"
        /\ resp'.id = pid
        /\ resp'.code = 200
        /\ RequestRental(u, pid, d, 0))
       => LET property == propertyOf(db, pid)
              today == ToISODate(now)
              duration == IF d = Absent THEN defaultDuration(property) ELSE d
              r == db'.rentals[Len(db'.rentals)]
          IN  /\ Len(db'.rentals) = Len(db.rentals) + 1
              /\ SubSeq(db'.rentals, 1, Len(db.rentals)) = db.rentals
              /\ db'.properties = db.properties
              /\ r.status = "pending"
              /\ r.tenantId = u
              /\ r.landlordId = property.ownerId
              /\ r.propertyId = pid
              /\ r.startDate = (IF property.startDate # Absent /\ property.startDate >= today
                                THEN property.startDate ELSE today)
              /\ MonthsDiff(r.startDate, r.endDate) = duration
              /\ getDate(r.endDate) <= getDate(r.startDate)]_vars

\* C19: on a property whose window spans k months (by year and month of its
\* two dates) a rental request that names a duration d is rejected, with
\* nothing stored, when d < k or d > 24, and accepted when k <= d <= 24, the
\* property is available and the caller has no pending request for it; and
\* every rental a step adds ends no later than 24 months after its start.
C19_DurationBounds ==
  [][/\ \A u \in Tenants, pid \in PropertyIds, d \in LegacyRentalDurations \ {Absent} :
          (/\ resp'.op = "requestRental"
           /\ resp'.id = pid
           /\ pid \in Ids(db.properties)
           /\ propertyOf(db, pid).startDate # Absent
           /\ propertyOf(db, pid).endDate # Absent
           /\ RequestRental(u, pid, d, 0))
          => LET property == propertyOf(db, pid)
                 k == MonthsDiff(property.startDate, property.endDate)
             IN  /\ (d < k \/ d > 24) => (resp'.code = 400 /\ db' = db)
                 /\ (/\ k <= d
                     /\ d <= 24
                     /\ property.available
                     /\ ~hasPendingRequest(db.rentals, u, pid))
                    => (resp'.code = 200 /\ Len(db'.rentals) = Len(db.rentals) + 1)
     /\ \A i \in DOMAIN db'.rentals \ DOMAIN db.rentals :
          db'.rentals[i].endDate <= AddMonths(db'.rentals[i].startDate, 24)]_vars

\* C20: a landlord who is not the owner of the rental's property gets every
\* decision on the rental, on its termination and on its renewal rejected
\* with nothing changed, and the owner's decision on a pending one succeeds,
\* whatever landlordId the rental, termination or renewal carries.
C20_OwnerDecides ==
  [][\A u \in Landlords :
       /\ \A rid \in RentalIds, a \in {"approve", "decline"} :
            (/\ resp'.op = "approveRental"
             /\ resp'.id = rid
             /\ rid \in Ids(db.rentals)
             /\ ApproveRental(u, rid, a, 0))
            => LET rental == rentalOf(db, rid)
               IN  /\ u # ownerOfRental(db, rental) => (resp'.code # 200 /\ db' = db)
                   /\ (u = ownerOfRental(db, rental) /\ rental.status = "pending")
                      => resp'.code = 200
       /\ \A tid \in TerminationIds, a \in BOOLEAN :
            (/\ resp'.op = "approveTermination"
             /\ resp'.id = tid
             /\ tid \in Ids(db.terminations)
             /\ ApproveTermination(u, tid, a, 0))
            => LET termination == terminationOf(db, tid)
                   rental == rentalOf(db, termination.rentalId)
               IN  /\ u # ownerOfRental(db, rental) => (resp'.code # 200 /\ db' = db)
                   /\ (u = ownerOfRental(db, rental) /\ termination.status = "pending")
                      => resp'.code = 200
       /\ \A nid \in RenewalIds, a \in BOOLEAN :
            (/\ resp'.op = "approveRenewal"
             /\ resp'.id = nid
             /\ nid \in Ids(db.renewals)
             /\ ApproveRenewal(u, nid, a, 0))
            => LET renewal == renewalOf(db, nid)
                   rental == rentalOf(db, renewal.rentalId)
               IN  /\ u # ownerOfRental(db, rental) => (resp'.code # 200 /\ db' = db)
                   /\ (u = ownerOfRental(db, rental) /\ renewal.status = "pending")
                      => resp'.code = 200]_vars

\* the owner l1 has decided a renewal of a rental that names l2 as landlord,
\* after having approved the rental and rejected its termination
C20_Witness ==
  /\ resp.op = "approveRenewal"
  /\ resp.code = 200
  /\ renewalOf(db, resp.id).status = "approved"
  /\ rentalOf(db, renewalOf(db, resp.id).rentalId).landlordId = "l2"
  /\ ownerOfRental(db, rentalOf(db, renewalOf(db, resp.id).rentalId)) = "l1"
  /\ \E i \in DOMAIN db.terminations :
       /\ db.terminations[i].rentalId = renewalOf(db, resp.id).rentalId
       /\ db.terminations[i].status = "rejected"

\* C21: after every step each tenant has at most one pending rental per
\* property, and a rental request by a tenant who has a pending rental for
\* that property is rejected and stores nothing.
C21_OnePendingRequest ==
  [][/\ \A i, j \in DOMAIN db'.rentals :
          (/\ db'.rentals[i].tenantId = db'.rentals[j].tenantId
           /\ db'.rentals[i].propertyId = db'.rentals[j].propertyId
           /\ db'.rentals[i].status = "pending"
           /\ db'.rentals[j].status = "pending") => i = j
     /\ \A u \in Tenants, pid \in PropertyIds, d \in RentalDurations :
          (/\ resp'.op = "requestRental"
           /\ resp'.id = pid
           /\ \E i \in DOMAIN db.rentals :
                /\ db.rentals[i].tenantId = u
                /\ db.rentals[i].propertyId = pid
                /\ db.rentals[i].status = "pending"
           /\ RequestRental(u, pid, d, 0))
          => (resp'.code = 400 /\ db' = db)]_vars

\* both tenants have a pending request for the available property 1 and a
\* further request was rejected
C21_Witness ==
  /\ resp.op = "requestRental"
  /\ resp.code = 400
  /\ resp.id = 1
  /\ propertyOf(db, 1).available
  /\ Len(db.rentals) = 2
  /\ db.rentals[1].status = "pending"
  /\ db.rentals[2].status = "pending"
  /\ db.rentals[1].tenantId # db.rentals[2].tenantId

\* C22: after every step each tenant has at most 20 rentals that are pending,
\* active, renewal_pending or terminating, and a rental request by a tenant
\* who has 20 of them is rejected and stores nothing.
C22_TenantCap ==
  [][\A u \in Tenants :
       /\ Cardinality({i \in DOMAIN db'.rentals :
                         /\ db'.rentals[i].tenantId = u
                         /\ db'.rentals[i].status \in
                              {"pending", "active", "renewal_pending", "terminating"}}) <= 20
       /\ \A pid \in CapPropertyIds :
            (/\ resp'.op = "requestRental"
             /\ resp'.id = pid
             /\ Cardinality({i \in DOMAIN db.rentals :
                               /\ db.rentals[i].tenantId = u
                               /\ db.rentals[i].status \in
                                    {"pending", "active", "renewal_pending", "terminating"}}) = 20
             /\ RequestRental(u, pid, Absent, 0))
            => (resp'.code = 400 /\ db' = db)]_vars

\* tenant t1 holds 20 rentals, one of them active, and the request for an
\* available property nobody has asked for was rejected
C22_Witness ==
  /\ resp.op = "requestRental"
  /\ resp.code = 400
  /\ propertyOf(db, resp.id).available
  /\ \A i \in DOMAIN db.rentals : db.rentals[i].propertyId # resp.id
  /\ \E i \in DOMAIN db.rentals : db.rentals[i].tenantId = "t1" /\ db.rentals[i].status = "active"
  /\ Cardinality({i \in DOMAIN db.rentals :
                    /\ db.rentals[i].tenantId = "t1"
                    /\ db.rentals[i].status \in {"pending", "active"}}) = 20

\* C23: the compliance rate the ministry dashboard returns is the share of
\* the rentals that are active, renewal_pending or terminating which have a
\* paid payment for the current month (0 when there is no such rental), as a
\* percentage rounded to two decimals.
C23_ComplianceRate ==
  (resp.op = "ministryDashboard" /\ resp.code = 200)
  => LET live == {i \in DOMAIN db.rentals : db.rentals[i].status \in LiveStatuses}
         paid == {i \in live :
                    \E j \in DOMAIN db.payments :
                       /\ db.payments[j].rentalId = db.rentals[i].id
                       /\ db.payments[j].month = currentMonth(now)
                       /\ db.payments[j].status = "paid"}
     IN  resp.complianceRate =
           IF live = {} THEN 0
           ELSE (2 * 10000 * Cardinality(paid) + Cardinality(live)) \div (2 * Cardinality(live))

\* C24: the collections a landlord dashboard has read are together those of
\* the store at one moment of its run at which no handler was between two of
\* its writes, that is, of the store before or after each operation that ran
\* beside it.
C24_NoTornView ==
  \A s \in Slots :
     (calls[s].op = "landlordDashboard" /\ calls[s].pc = "done")
     => \E d \in calls[s].stores :
          \A f \in {"properties", "rentals", "payments", "terminations"} :
             calls[s].snap[f] = d[f]

\* C25: when two mutating requests about different rentals and different
\* properties have both been answered 200, the store holds the effects of
\* both: the rental a request created, the status an approval or a decline
\* gave (and the property made unavailable), the termination a request added.
C25_BothEffectsKept ==
  \A s \in Slots : \A o \in Slots \ {s} :
     (/\ calls[s].op \in {"requestRental", "approveRental", "requestTermination"}
      /\ calls[o].op \in {"requestRental", "approveRental", "requestTermination"}
      /\ calls[s].pc = "done"
      /\ calls[o].pc = "done"
      /\ calls[s].out.code = 200
      /\ calls[o].out.code = 200
      /\ calls[s].rentals \cap calls[o].rentals = {}
      /\ calls[s].properties \cap calls[o].properties = {})
     => LET c == calls[s]
        IN  /\ c.op = "requestRental"
               => \E i \in DOMAIN db.rentals :
                     db.rentals[i].tenantId = c.u /\ db.rentals[i].propertyId = c.id
            /\ c.op = "approveRental"
               => /\ c.id \in Ids(db.rentals)
                  /\ IF c.arg = "approve"
                     THEN /\ rentalOf(db, c.id).status \in LiveStatuses
                          /\ \A pid \in c.properties : ~propertyOf(db, pid).available
                     ELSE rentalOf(db, c.id).status = "cancelled"
            /\ c.op = "requestTermination"
               => /\ c.id \in Ids(db.rentals)
                  /\ rentalOf(db, c.id).status = "terminating"
                  /\ \E i \in DOMAIN db.terminations : db.terminations[i].rentalId = c.id

\* C26: when the tenant's termination request on an active rental is
\* accepted, the landlord's rejection of that request does not leave the
\* rental active with an end date later than the one it had before the
\* request; a tenant's request alone never moves an active rental's end date
\* later.
C26_LaterEndByRenewalOnly ==
  [][\A rid \in RentalIds, tid \in TerminationIds :
       (/\ resp'.op = "requestTermination"
        /\ resp'.id = rid
        /\ resp'.code = 200
        /\ rid \in Ids(db.rentals)
        /\ rentalOf(db, rid).status = "active"
        /\ tid \notin Ids(db.terminations)
        /\ tid \in Ids(db'.terminations))
       => \A l \in Landlords :
            LET rejected == Commit(db, ApproveTerminationOut(l, tid, FALSE).writes)'
            IN  (/\ rid \in Ids(rejected.rentals)
                 /\ rentalOf(rejected, rid).status = "active")
                => rentalOf(rejected, rid).endDate <= rentalOf(db, rid).endDate]_vars

\* C27: when the tenant's renewal request is accepted for an active rental
\* whose end date has passed, while the property, offered again from that
\* end date on, is occupied by another tenant's rental (live, ending after
\* now), the landlord's approval of that renewal does not leave the property
\* with two rentals that are live and end after now.
C27_NoRevival ==
  [][\A rid \in RentalIds, nid \in RenewalIds :
       (/\ resp'.op = "requestRenewal"
        /\ resp'.id = rid
        /\ resp'.code = 200
        /\ nid \notin Ids(db.renewals)
        /\ nid \in Ids(db'.renewals)
        /\ rid \in Ids(db.rentals)
        /\ rentalOf(db, rid).status = "active"
        /\ rentalOf(db, rid).endDate # Absent
        /\ ParseDate(rentalOf(db, rid).endDate) <= now
        /\ propertyOf(db, rentalOf(db, rid).propertyId).startDate # Absent
        /\ propertyOf(db, rentalOf(db, rid).propertyId).startDate >= rentalOf(db, rid).endDate
        /\ \E i \in DOMAIN db.rentals :
             /\ db.rentals[i].id # rid
             /\ db.rentals[i].tenantId # rentalOf(db, rid).tenantId
             /\ db.rentals[i].startDate >= rentalOf(db, rid).endDate
             /\ IsBlocking(db.rentals[i], rentalOf(db, rid).propertyId, now))
       => \A l \in Landlords :
            LET approved == Commit(db, ApproveRenewalOut(l, nid, TRUE).writes)'
            IN  Cardinality(activeRentals(approved.rentals,
                                          rentalOf(db, rid).propertyId, now)) <= 1]_vars

\* C28: a rental becomes completed only in the step that approves its
\* pending termination; the passing of time changes nothing stored; and an
\* active rental whose end date has passed still has its tenant's
\* termination request (with two months' notice) and renewal request (for 1
\* to 24 months) accepted.
C28_NoNaturalLapse ==
  [][/\ \A i \in DOMAIN db'.rentals :
          (/\ db'.rentals[i].status = "completed"
           /\ (i \in DOMAIN db.rentals => db.rentals[i].status # "completed"))
          => /\ resp'.op = "approveTermination"
             /\ resp'.code = 200
             /\ resp'.id \in Ids(db.terminations)
             /\ terminationOf(db, resp'.id).status = "pending"
             /\ terminationOf(db, resp'.id).rentalId = db'.rentals[i].id
             /\ terminationOf(db', resp'.id).status = "approved"
     /\ now' # now => db' = db
     /\ \A u \in Tenants, rid \in RentalIds :
          (/\ resp'.op \in {"requestTermination", "requestRenewal"}
           /\ resp'.id = rid
           /\ rid \in Ids(db.rentals)
           /\ rentalOf(db, rid).tenantId = u
           /\ rentalOf(db, rid).status = "active"
           /\ rentalOf(db, rid).endDate # Absent
           /\ ParseDate(rentalOf(db, rid).endDate) <= now)
          => /\ \A d \in TerminationDates :
                  (/\ ParseDate(d) >= InstantAddMonths(now, 2)
                   /\ ~\E j \in DOMAIN db.terminations :
                         db.terminations[j].rentalId = rid /\ db.terminations[j].status = "pending"
                   /\ RequestTermination(u, rid, d, 0))
                  => resp'.code = 200
             /\ \A d \in RenewalDurations :
                  (/\ d \in 1..24
                   /\ ~\E j \in DOMAIN db.renewals :
                         db.renewals[j].rentalId = rid /\ db.renewals[j].status = "pending"
                   /\ RequestRenewal(u, rid, d, 0))
                  => resp'.code = 200]_vars

\* a renewal was requested and accepted for a rental whose end date had
\* passed while it was active and never terminated
C28_Witness ==
  /\ resp.op = "requestRenewal"
  /\ resp.code = 200
  /\ rentalOf(db, resp.id).status = "renewal_pending"
  /\ ParseDate(rentalOf(db, resp.id).endDate) <= now
  /\ db.terminations = <<>>

\* C29: while a property has a completed rental whose termination was
\* approved with the end date the rental now has, and that end date is after
\* now, the owner's list-again and the owner's update setting available to
\* true are both rejected and change nothing.
C29_RelistAfterTerminationDate ==
  [][\A pid \in PropertyIds :
       (/\ resp'.op \in {"listAgain", "updateProperty"}
        /\ resp'.id = pid
        /\ pid \in Ids(db.properties)
        /\ \E i \in DOMAIN db.rentals, k \in DOMAIN db.terminations :
             /\ db.rentals[i].propertyId = pid
             /\ db.rentals[i].status = "completed"
             /\ db.terminations[k].rentalId = db.rentals[i].id
             /\ db.terminations[k].status = "approved"
             /\ db.rentals[i].endDate = db.terminations[k].requestedEndDate
             /\ ParseDate(db.rentals[i].endDate) > now)
       => \A u \in Landlords :
            (\/ ListAgain(u, pid, Absent, 0)
             \/ UpdateProperty(u, pid, [available |-> TRUE], 0))
            => (resp'.code # 200 /\ db' = db)]_vars

\* C30: every step keeps the stored payments as they are and appends at most
\* one; a payment is appended only by a successful payment creation made by
\* the tenant of a rental that is active at that moment, with the rental's
\* monthlyRent as amount and status paid; and every stored payment is paid
\* and has the monthlyRent of its rental as amount.
C30_PaymentsOnlyForActive ==
  [][/\ Len(db'.payments) \in {Len(db.payments), Len(db.payments) + 1}
     /\ SubSeq(db'.payments, 1, Len(db.payments)) = db.payments
     /\ \A i \in DOMAIN db'.payments \ DOMAIN db.payments :
          LET p == db'.payments[i]
          IN  /\ resp'.op = "createPayment"
              /\ resp'.code = 200
              /\ resp'.id = p.rentalId
              /\ p.rentalId \in Ids(db.rentals)
              /\ rentalOf(db, p.rentalId).status = "active"
              /\ p.amount = rentalOf(db, p.rentalId).monthlyRent
              /\ p.status = "paid"
              /\ \A u \in Users, m \in PaymentMonths, a \in PaymentAmounts :
                   CreatePayment(u, p.rentalId, m, a, 0)
                   => (u = rentalOf(db, p.rentalId).tenantId /\ m = p.month /\ a = p.amount)
     /\ \A i \in DOMAIN db'.payments :
          /\ db'.payments[i].status = "paid"
          /\ db'.payments[i].amount = rentalOf(db', db'.payments[i].rentalId).monthlyRent]_vars

\* a tenant has just paid the rent of 150 of an active rental, while the
\* payment of 100 another tenant made earlier is still stored unchanged and
\* that tenant's rental is no longer active
C30_Witness ==
  /\ resp.op = "createPayment"
  /\ resp.code = 200
  /\ Len(db.payments) = 2
  /\ db.payments[2].rentalId = resp.id
  /\ db.payments[2].amount = 150
  /\ rentalOf(db, resp.id).status = "active"
  /\ db.payments[1].amount = 100
  /\ db.payments[1].rentalId # resp.id
  /\ rentalOf(db, db.payments[1].rentalId).status \in {"terminating", "completed"}
====
